---- MODULE Spec2Model ----
(***************************************************************************)
(* MangaScience (src/index.tsx, src/unnamed/part_000): the script parser   *)
(* parseScript and the App component's generation run, reset, preset and   *)
(* PDF-download handlers.                                                  *)
(*                                                                         *)
(* Text is a sequence of tokens.  A token [k, v] is one of                 *)
(*   "Panel"        the exact-case marker "Panel <digits>:", v = digits    *)
(*   "panel"        the same marker in another case ("panel 3:")           *)
(*   "Description:" "Dialogue:" "SFX:"   a label, in any case              *)
(*   "W"            a run of non-blank text holding no marker or label     *)
(*   "NL"           white space ending in a line break                     *)
(***************************************************************************)
EXTENDS Integers, Sequences, FiniteSets, TLC

VARIABLES
  topic,          \* useState('')
  mangaPanels,    \* useState<MangaPanelData[]>([])
  isLoading,      \* useState(false)
  isDownloading,  \* useState(false)
  loadingMessage, \* useState('')
  error,          \* useState<string | null>(null)
  runs,           \* the calls of handleGenerateManga that have not returned
  runCount,       \* how many calls got past the topic check
  crashed,        \* a state updater threw while rendering
  last,           \* the step taken last and its input
  scriptText,     \* parseScript's argument, for the parser on its own
  parsed          \* and what it returned

appVars == <<topic, mangaPanels, isLoading, isDownloading, loadingMessage,
             error, runs, runCount, crashed, last>>
parseVars == <<scriptText, parsed>>
vars == <<topic, mangaPanels, isLoading, isDownloading, loadingMessage,
          error, runs, runCount, crashed, last, scriptText, parsed>>

(***************************** bounds **************************************)
MaxLen == 4
MaxPanels == 4
MaxRuns == 2

(***************************** text ****************************************)
Tok(k, v) == [k |-> k, v |-> v]
NL == Tok("NL", <<>>)
Word(n) == Tok("W", <<n>>)
DescriptionLabel == Tok("Description:", <<>>)
DialogueLabel == Tok("Dialogue:", <<>>)
SfxLabel == Tok("SFX:", <<>>)
PanelMarker(digits) == Tok("Panel", digits)
LowerPanelMarker(digits) == Tok("panel", digits)

IsSpace(t) == t.k = "NL"

RECURSIVE TrimStart(_)
TrimStart(s) ==
  IF s # <<>> /\ IsSpace(Head(s)) THEN TrimStart(Tail(s)) ELSE s

RECURSIVE TrimEnd(_)
TrimEnd(s) ==
  IF s # <<>> /\ IsSpace(s[Len(s)]) THEN TrimEnd(SubSeq(s, 1, Len(s) - 1)) ELSE s

\* String.prototype.trim
Trim(s) == TrimEnd(TrimStart(s))

\* index of the first position >= from whose token kind is in kinds, else Len(s)+1
RECURSIVE FirstOf(_, _, _)
FirstOf(s, kinds, from) ==
  IF from > Len(s) THEN Len(s) + 1
  ELSE IF s[from].k \in kinds THEN from
  ELSE FirstOf(s, kinds, from + 1)

\* scriptText.split(/(?=Panel \d+:)/): cut before every exact-case marker
\* that is not at position 0; the empty string splits into [""].
RECURSIVE SplitBlocks(_)
SplitBlocks(s) ==
  IF s = <<>> THEN << <<>> >>
  ELSE LET cut == FirstOf(s, {"Panel"}, 2)
       IN  IF cut > Len(s) THEN <<s>>
           ELSE <<SubSeq(s, 1, cut - 1)>> \o SplitBlocks(SubSeq(s, cut, Len(s)))

\* .filter(block => block.trim() !== '')
PanelBlocks(s) == SelectSeq(SplitBlocks(s), LAMBDA b : Trim(b) # <<>>)

\* parseInt(digits, 10)
RECURSIVE ParseInt(_)
ParseInt(digits) ==
  IF digits = <<>> THEN 0
  ELSE 10 * ParseInt(SubSeq(digits, 1, Len(digits) - 1)) + digits[Len(digits)]

\* block.match(/^Panel (\d+):/im): the first marker, in any case, that
\* starts a line; 0 when the match is null
RECURSIVE MarkerAt(_, _)
MarkerAt(block, j) ==
  IF j > Len(block) THEN 0
  ELSE IF block[j].k \in {"Panel", "panel"} /\ (j = 1 \/ block[j - 1].k = "NL")
       THEN j
  ELSE MarkerAt(block, j + 1)

PanelNum(block) ==
  LET j == MarkerAt(block, 1)
  IN  IF j = 0 THEN 0 ELSE ParseInt(block[j].v)

\* label\s*([\s\S]*?)(?=stops|$): text after the first label up to the
\* first following stop label or the end of the block; [found, text]
LabelMatch(block, label, stops) ==
  LET j == FirstOf(block, {label}, 1)
  IN  IF j > Len(block) THEN [found |-> FALSE, text |-> <<>>]
      ELSE [found |-> TRUE,
            text |-> SubSeq(block, j + 1, FirstOf(block, stops, j + 1) - 1)]

DescriptionMatch(block) == LabelMatch(block, "Description:", {"Dialogue:", "SFX:"})
DialogueMatch(block) == LabelMatch(block, "Dialogue:", {"SFX:"})
SfxMatch(block) == LabelMatch(block, "SFX:", {})

\* 'No description provided.'
NoDescription == <<Word(0)>>

\* the object pushed for a block; sfx = <<>> stands for undefined (the
\* code never stores an empty sfx string)
PanelRecord(block) ==
  [panel |-> PanelNum(block),
   description |-> IF DescriptionMatch(block).found
                   THEN Trim(DescriptionMatch(block).text) ELSE NoDescription,
   dialogue |-> IF DialogueMatch(block).found
                THEN Trim(DialogueMatch(block).text) ELSE <<>>,
   sfx |-> IF SfxMatch(block).found THEN Trim(SfxMatch(block).text) ELSE <<>>]

RECURSIVE CollectPanelsStopping(_)
CollectPanelsStopping(blocks) ==
  IF blocks = <<>> \/ PanelNum(Head(blocks)) = 0 THEN <<>>
  ELSE <<PanelRecord(Head(blocks))>> \o CollectPanelsStopping(Tail(blocks))

\* panelBlocks.forEach: push a record for every block with panelNum > 0
RECURSIVE CollectPanels(_)
CollectPanels(blocks) ==
  IF blocks = <<>> THEN <<>>
  ELSE (IF PanelNum(Head(blocks)) > 0 THEN <<PanelRecord(Head(blocks))>> ELSE <<>>)
       \o CollectPanels(Tail(blocks))

\* the comparator (a, b) => a.panel - b.panel
Compare(a, b) == a.panel - b.panel

\* Array.prototype.sort is stable: insert each record, in order, behind
\* every record that does not compare greater
RECURSIVE InsertSortedBeforeEqual(_, _)
InsertSortedBeforeEqual(sorted, r) ==
  IF sorted = <<>> THEN <<r>>
  ELSE IF Compare(Head(sorted), r) >= 0 THEN <<r>> \o sorted
  ELSE <<Head(sorted)>> \o InsertSortedBeforeEqual(Tail(sorted), r)

RECURSIVE InsertSorted(_, _)
InsertSorted(sorted, r) ==
  IF sorted = <<>> THEN <<r>>
  ELSE IF Compare(Head(sorted), r) > 0 THEN <<r>> \o sorted
  ELSE <<Head(sorted)>> \o InsertSorted(Tail(sorted), r)

SortPanelsOmitted(panels) == panels

RECURSIVE SortPanels(_)
SortPanels(panels) ==
  IF panels = <<>> THEN <<>>
  ELSE InsertSorted(SortPanels(SubSeq(panels, 1, Len(panels) - 1)), panels[Len(panels)])

NoPanelsMsg == "Script parsing failed: Could not find any panels in the generated text."
NoDataMsg == "Script parsing failed: Found panel blocks but could not extract panel data."

\* parseScript: [threw, message, panels]
ParseScript(text) ==
  LET blocks == PanelBlocks(text)
      panels == CollectPanels(blocks)
  IN  IF Len(blocks) = 0 THEN [threw |-> TRUE, message |-> NoPanelsMsg, panels |-> <<>>]
      ELSE IF Len(panels) = 0 THEN [threw |-> TRUE, message |-> NoDataMsg, panels |-> <<>>]
      ELSE [threw |-> FALSE, message |-> "", panels |-> SortPanels(panels)]


(***************************** values **************************************)
\* string | null and similar: <<>> is null / undefined, <<x>> is x
Null == <<>>
Some(x) == <<x>>

\* imageUrl: null or `data:image/png;base64,${data}`
NullUrl == [isNull |-> TRUE, data |-> <<>>]
DataUrl(data) == [isNull |-> FALSE, data |-> data]

LoadingText(kind, a, b) == [kind |-> kind, a |-> a, b |-> b]
NoMessage == LoadingText("", 0, 0)
DraftingMessage == LoadingText("Dr. Manga is drafting the story...", 0, 0)
InkingMessage(a, b) == LoadingText("Inking panel a of b...", a, b)

EmptyTopicMsg == "Please enter a science topic."
InsufficientMsg == "Failed to generate a valid script with at least 4 panels."
UnknownErrorMsg == "An unknown error occurred."
PdfErrorMsg == "Sorry, there was an issue creating the PDF. Please try again."
TrimOfUndefinedMsg == "Cannot read properties of undefined (reading 'trim')"
ContentOfUndefinedMsg == "Cannot read properties of undefined (reading 'content')"
PartsOfUndefinedMsg == "Cannot read properties of undefined (reading 'parts')"

\* `An error occurred while generating the manga: ${errorMessage} Please try again.`
GenerationError(errorMessage) ==
  "An error occurred while generating the manga: " \o errorMessage \o " Please try again."

MinPanelsThree == 3

\* the minimum of scriptData.length < 4
MinPanels == 4

(***************************** inputs **************************************)
\* what a rejected request throws: an Error with a message, or another value
Rejections == {[isError |-> TRUE, message |-> "fetch failed"],
               [isError |-> FALSE, message |-> ""]}

\* err instanceof Error ? err.message : 'An unknown error occurred.'
ErrorMessageOf(err) == IF err.isError THEN err.message ELSE UnknownErrorMsg

\* a script as the model is told to write it: one block per ordinal
ScriptBlock(d) ==
  <<PanelMarker(<<d>>), NL, DescriptionLabel, Word(1), NL, DialogueLabel, Word(2), NL>>

RECURSIVE ScriptOf(_)
ScriptOf(ords) ==
  IF ords = <<>> THEN <<>> ELSE ScriptBlock(Head(ords)) \o ScriptOf(Tail(ords))

\* the ordinals the blocks of a script response declare; 0 is dropped by the parser
ScriptDigits == {0, 1, 2}
ScriptOrdinals == UNION {[1..n -> ScriptDigits] : n \in 0..MaxPanels}

\* scriptResponse: its .text is undefined or a string
ScriptResponses ==
  {[text |-> Null]} \cup {[text |-> Some(<<NL>> \o ScriptOf(o))] : o \in ScriptOrdinals}

TextPart == [inline |-> FALSE, data |-> <<>>]
InlinePart(data) == [inline |-> TRUE, data |-> data]
WithParts(parts) == [candidates |-> Some(<<[content |-> Some([parts |-> parts])]>>)]

\* imageResponse for the request of run id and index i: candidates,
\* candidates[0].content and content.parts are each optional; the image
\* bytes name the request they answer
ImageResponses(id, i) ==
  { [candidates |-> Null],
    [candidates |-> Some(<<>>)],
    [candidates |-> Some(<<[content |-> Null]>>)],
    WithParts(Null),
    WithParts(Some(<<>>)),
    WithParts(Some(<<TextPart>>)),
    WithParts(Some(<<InlinePart(<<id, i, 0>>)>>)),
    WithParts(Some(<<TextPart, InlinePart(<<id, i, 0>>)>>)),
    WithParts(Some(<<InlinePart(<<id, i, 0>>), InlinePart(<<id, i, 1>>)>>)) }

NoResponse == [candidates |-> Null]

\* typed topics; '' is the initial value
EmptyTopic == <<>>
TypedTopics == {EmptyTopic, <<NL>>, <<Word(1)>>}
\* ["Photosynthesis", "Black Holes", "The Water Cycle", "Volcanoes"]: a
\* one-word and a two-word preset stand for the four, which the handlers
\* treat alike
presetTopics == {<<Word(11)>>, <<Word(12), NL, Word(13)>>}

(***************************** the run *************************************)
InitialPanelsReversed(scriptData) ==
  [j \in 1..Len(scriptData) |->
     [panel |-> scriptData[Len(scriptData) + 1 - j].panel,
      description |-> scriptData[Len(scriptData) + 1 - j].description,
      dialogue |-> scriptData[Len(scriptData) + 1 - j].dialogue,
      sfx |-> scriptData[Len(scriptData) + 1 - j].sfx,
      imageUrl |-> NullUrl]]

\* scriptData.map(script => ({ ...script, imageUrl: null }))
InitialPanels(scriptData) ==
  [j \in 1..Len(scriptData) |->
     [panel |-> scriptData[j].panel, description |-> scriptData[j].description,
      dialogue |-> scriptData[j].dialogue, sfx |-> scriptData[j].sfx,
      imageUrl |-> NullUrl]]

\* for (const part of parts) if (part.inlineData) { imageUrl = ...; break }
RECURSIVE FirstInline(_)
FirstInline(parts) ==
  IF parts = <<>> THEN NullUrl
  ELSE IF Head(parts).inline THEN DataUrl(Head(parts).data)
  ELSE FirstInline(Tail(parts))

\* lines 128-137: [threw, message, imageUrl]
ExtractImageUrl(resp) ==
  IF resp.candidates = Null
  THEN [threw |-> FALSE, message |-> "", imageUrl |-> NullUrl]
  ELSE IF resp.candidates[1] = <<>>
  THEN [threw |-> TRUE, message |-> ContentOfUndefinedMsg, imageUrl |-> NullUrl]
  ELSE IF resp.candidates[1][1].content = Null
  THEN [threw |-> TRUE, message |-> PartsOfUndefinedMsg, imageUrl |-> NullUrl]
  ELSE IF resp.candidates[1][1].content[1].parts = Null
  THEN [threw |-> FALSE, message |-> "", imageUrl |-> NullUrl]
  ELSE [threw |-> FALSE, message |-> "",
        imageUrl |-> FirstInline(resp.candidates[1][1].content[1].parts[1])]

SetImageUrlUpTo(prevPanels, i, imageUrl) ==
  [j \in DOMAIN prevPanels |->
     IF j <= i + 1 THEN [prevPanels[j] EXCEPT !.imageUrl = imageUrl]
     ELSE prevPanels[j]]

\* the updater: newPanels = [...prevPanels]; newPanels[i].imageUrl = imageUrl
SetImageUrl(prevPanels, i, imageUrl) ==
  [prevPanels EXCEPT ![i + 1].imageUrl = imageUrl]

NextIndexSkipping(i) == i + 2

\* i++
NextIndex(i) == i + 1

NewRun(id) == [id |-> id, pc |-> "awaitScript", i |-> 0, scriptData |-> <<>>,
               issued |-> <<>>, reconciled |-> <<>>]

RemoveAt(s, r) == SubSeq(s, 1, r - 1) \o SubSeq(s, r + 1, Len(s))

Step(op, id, idx, text, resp) ==
  [op |-> op, run |-> id, idx |-> idx, text |-> text, resp |-> resp]

\* a continuation between two awaits runs to its end before any event
InContinuation == \E r \in DOMAIN runs : runs[r].pc = "loop"

\* mangaPanels.length === 0 && (<form ...>)
FormVisible == Len(mangaPanels) = 0
FormEnabledWhileLoading == FormVisible

\* the input, the submit button and the presets carry disabled={isLoading}
FormEnabled == FormVisible /\ ~isLoading
\* mangaPanels.length > 0 && ... {!isLoading && (<div className="actions-container">)}
ActionsVisible == Len(mangaPanels) > 0 /\ ~isLoading

(***************************** actions *************************************)
NotParsed == [threw |-> FALSE, message |-> "not called", panels |-> <<>>]

Init ==
  /\ topic = EmptyTopic
  /\ mangaPanels = <<>>
  /\ isLoading = FALSE
  /\ isDownloading = FALSE
  /\ loadingMessage = NoMessage
  /\ error = Null
  /\ runs = <<>>
  /\ runCount = 0
  /\ crashed = FALSE
  /\ last = Step("init", 0, 0, Null, NoResponse)
  /\ scriptText = <<>>
  /\ parsed = NotParsed

CatchClearing(r, errorMessage) ==
  /\ error' = Some(GenerationError(errorMessage))
  /\ isLoading' = FALSE
  /\ runs' = RemoveAt(runs, r)
  /\ mangaPanels' = <<>>
  /\ UNCHANGED loadingMessage

\* catch (err) { setError(...) } finally { setIsLoading(false) }
Catch(r, errorMessage) ==
  /\ error' = Some(GenerationError(errorMessage))
  /\ isLoading' = FALSE
  /\ runs' = RemoveAt(runs, r)
  /\ UNCHANGED <<mangaPanels, loadingMessage>>

\* handleGenerateManga up to its first await; the caller sets topic
HandleGenerateManga(topicOverride) ==
  LET currentTopic == IF topicOverride # EmptyTopic THEN topicOverride ELSE topic
  IN  IF Trim(currentTopic) = <<>>
      THEN /\ error' = Some(EmptyTopicMsg)
           /\ last' = Step("emptyTopic", 0, 0, Null, NoResponse)
           /\ UNCHANGED <<mangaPanels, isLoading, loadingMessage, runs, runCount>>
      ELSE /\ runCount < MaxRuns
           /\ isLoading' = TRUE
           /\ error' = Null
           /\ mangaPanels' = <<>>
           /\ loadingMessage' = DraftingMessage
           /\ runCount' = runCount + 1
           /\ runs' = Append(runs, NewRun(runCount + 1))
           /\ last' = Step("start", runCount + 1, 0, Null, NoResponse)

\* onChange={(e) => setTopic(e.target.value)}
SetTopic(value) ==
  /\ ~crashed /\ ~InContinuation
  /\ FormEnabled
  /\ value # topic
  /\ topic' = value
  /\ last' = Step("setTopic", 0, 0, Null, NoResponse)
  /\ UNCHANGED <<mangaPanels, isLoading, isDownloading, loadingMessage, error,
                 runs, runCount, crashed, parseVars>>

\* onSubmit={(e) => { e.preventDefault(); handleGenerateManga(); }}
Submit ==
  /\ ~crashed /\ ~InContinuation
  /\ FormEnabled
  /\ HandleGenerateManga(EmptyTopic)
  /\ UNCHANGED <<topic, isDownloading, crashed, parseVars>>

\* handlePresetClick
PresetClick(presetTopic) ==
  /\ ~crashed /\ ~InContinuation
  /\ FormEnabled
  /\ topic' = presetTopic
  /\ HandleGenerateManga(presetTopic)
  /\ UNCHANGED <<isDownloading, crashed, parseVars>>

\* the script request rejects
ScriptRejected(r, err) ==
  /\ ~crashed /\ ~InContinuation
  /\ runs[r].pc = "awaitScript"
  /\ Catch(r, ErrorMessageOf(err))
  /\ last' = Step("scriptRejected", runs[r].id, 0, Null, NoResponse)
  /\ UNCHANGED <<topic, isDownloading, runCount, crashed, parseVars>>

\* the script request resolves: parse, validate, publish the placeholders
ScriptResolved(r, scriptResponse) ==
  /\ ~crashed /\ ~InContinuation
  /\ runs[r].pc = "awaitScript"
  /\ last' = Step("scriptResolved", runs[r].id, 0, scriptResponse.text, NoResponse)
  /\ IF scriptResponse.text = Null
     THEN Catch(r, TrimOfUndefinedMsg)
     ELSE LET result == ParseScript(Trim(scriptResponse.text[1]))
          IN  IF result.threw THEN Catch(r, result.message)
              ELSE IF Len(result.panels) < MinPanels THEN Catch(r, InsufficientMsg)
              ELSE /\ mangaPanels' = InitialPanels(result.panels)
                   /\ runs' = [runs EXCEPT ![r].pc = "loop", ![r].i = 0,
                                           ![r].scriptData = result.panels]
                   /\ UNCHANGED <<isLoading, loadingMessage, error>>
  /\ UNCHANGED <<topic, isDownloading, runCount, crashed, parseVars>>

\* the loop test holds: set the message and send the request for panel i
IssueImageRequest(r) ==
  /\ ~crashed
  /\ runs[r].pc = "loop"
  /\ runs[r].i < Len(runs[r].scriptData)
  /\ loadingMessage' = InkingMessage(runs[r].i + 1, Len(runs[r].scriptData))
  /\ runs' = [runs EXCEPT ![r].pc = "awaitImage",
                          ![r].issued = Append(@, runs[r].i)]
  /\ last' = Step("issue", runs[r].id, runs[r].i, Null, NoResponse)
  /\ UNCHANGED <<topic, mangaPanels, isLoading, isDownloading, error, runCount,
                 crashed, parseVars>>

\* the loop test fails: setLoadingMessage(''), then finally
FinishRun(r) ==
  /\ ~crashed
  /\ runs[r].pc = "loop"
  /\ ~(runs[r].i < Len(runs[r].scriptData))
  /\ loadingMessage' = NoMessage
  /\ isLoading' = FALSE
  /\ runs' = RemoveAt(runs, r)
  /\ last' = Step("finish", runs[r].id, runs[r].i, Null, NoResponse)
  /\ UNCHANGED <<topic, mangaPanels, isDownloading, error, runCount, crashed,
                 parseVars>>

\* the image request rejects
ImageRejected(r, err) ==
  /\ ~crashed /\ ~InContinuation
  /\ runs[r].pc = "awaitImage"
  /\ Catch(r, ErrorMessageOf(err))
  /\ last' = Step("imageRejected", runs[r].id, runs[r].i, Null, NoResponse)
  /\ UNCHANGED <<topic, isDownloading, runCount, crashed, parseVars>>

\* the image request resolves: find the inline image, reconcile, i++
ImageResolved(r, imageResponse) ==
  /\ ~crashed /\ ~InContinuation
  /\ runs[r].pc = "awaitImage"
  /\ last' = Step("imageResolved", runs[r].id, runs[r].i, Null, imageResponse)
  /\ LET found == ExtractImageUrl(imageResponse)
     IN  IF found.threw
         THEN Catch(r, found.message) /\ UNCHANGED crashed
         ELSE IF runs[r].i + 1 \in DOMAIN mangaPanels
         THEN /\ mangaPanels' = SetImageUrl(mangaPanels, runs[r].i, found.imageUrl)
              /\ runs' = [runs EXCEPT ![r].pc = "loop", ![r].i = NextIndex(@),
                                      ![r].reconciled = Append(@, runs[r].i)]
              /\ UNCHANGED <<isLoading, loadingMessage, error, crashed>>
         ELSE /\ crashed' = TRUE
              /\ UNCHANGED <<mangaPanels, runs, isLoading, loadingMessage, error>>
  /\ UNCHANGED <<topic, isDownloading, runCount, parseVars>>

HandleResetKeeping ==
  /\ ~crashed /\ ~InContinuation
  /\ ActionsVisible
  /\ topic' = EmptyTopic
  /\ error' = Null
  /\ last' = Step("reset", 0, 0, Null, NoResponse)
  /\ UNCHANGED <<mangaPanels, isLoading, isDownloading, loadingMessage, runs,
                 runCount, crashed, parseVars>>

\* handleReset
HandleReset ==
  /\ ~crashed /\ ~InContinuation
  /\ ActionsVisible
  /\ mangaPanels' = <<>>
  /\ topic' = EmptyTopic
  /\ error' = Null
  /\ last' = Step("reset", 0, 0, Null, NoResponse)
  /\ UNCHANGED <<isLoading, isDownloading, loadingMessage, runs, runCount,
                 crashed, parseVars>>

\* handleDownloadPdf up to its first await
DownloadStart ==
  /\ ~crashed /\ ~InContinuation
  /\ ActionsVisible
  /\ ~isDownloading
  /\ isDownloading' = TRUE
  /\ error' = Null
  /\ last' = Step("downloadStart", 0, 0, Null, NoResponse)
  /\ UNCHANGED <<topic, mangaPanels, isLoading, loadingMessage, runs, runCount,
                 crashed, parseVars>>

\* every html2canvas call resolved and pdf.save returned
DownloadDone ==
  /\ ~crashed /\ ~InContinuation
  /\ isDownloading
  /\ isDownloading' = FALSE
  /\ last' = Step("downloadDone", 0, 0, Null, NoResponse)
  /\ UNCHANGED <<topic, mangaPanels, isLoading, loadingMessage, error, runs,
                 runCount, crashed, parseVars>>

\* something in the try block threw
DownloadFailed ==
  /\ ~crashed /\ ~InContinuation
  /\ isDownloading
  /\ error' = Some(PdfErrorMsg)
  /\ isDownloading' = FALSE
  /\ last' = Step("downloadFailed", 0, 0, Null, NoResponse)
  /\ UNCHANGED <<topic, mangaPanels, isLoading, loadingMessage, runs, runCount,
                 crashed, parseVars>>

Next ==
  \/ \E value \in TypedTopics : SetTopic(value)
  \/ Submit
  \/ \E presetTopic \in presetTopics : PresetClick(presetTopic)
  \/ \E r \in DOMAIN runs, err \in Rejections : ScriptRejected(r, err)
  \/ \E r \in DOMAIN runs, resp \in ScriptResponses : ScriptResolved(r, resp)
  \/ \E r \in DOMAIN runs : IssueImageRequest(r)
  \/ \E r \in DOMAIN runs : FinishRun(r)
  \/ \E r \in DOMAIN runs, err \in Rejections : ImageRejected(r, err)
  \/ \E r \in DOMAIN runs :
       \E resp \in ImageResponses(runs[r].id, runs[r].i) : ImageResolved(r, resp)
  \/ HandleReset
  \/ DownloadStart
  \/ DownloadDone
  \/ DownloadFailed

Spec == Init /\ [][Next]_vars

(***************************** the parser on its own ***********************)
DigitStrings == {<<0>>, <<1>>, <<2>>, <<1, 0>>}

Alphabet ==
  {PanelMarker(d) : d \in DigitStrings} \cup {LowerPanelMarker(<<3>>)}
  \cup {DescriptionLabel, DialogueLabel, SfxLabel, Word(1), NL}

Texts == UNION {[1..n -> Alphabet] : n \in 0..MaxLen}

InitParse ==
  /\ topic = EmptyTopic
  /\ mangaPanels = <<>>
  /\ isLoading = FALSE
  /\ isDownloading = FALSE
  /\ loadingMessage = NoMessage
  /\ error = Null
  /\ runs = <<>>
  /\ runCount = 0
  /\ crashed = FALSE
  /\ last = Step("init", 0, 0, Null, NoResponse)
  /\ scriptText \in Texts
  /\ parsed = NotParsed

CallParseScript ==
  /\ last.op = "init"
  /\ parsed' = ParseScript(scriptText)
  /\ last' = Step("parseScript", 0, 0, Null, NoResponse)
  /\ UNCHANGED <<topic, mangaPanels, isLoading, isDownloading, loadingMessage,
                 error, runs, runCount, crashed, scriptText>>

NextParse == CallParseScript

SpecParse == InitParse /\ [][NextParse]_vars

(***************************** properties **********************************)
RunIds(rs) == {rs[r].id : r \in DOMAIN rs}
IndicesUpTo(n) == [k \in 1..n |-> k - 1]
Ordinals(panels) == [j \in DOMAIN panels |-> panels[j].panel]
ScriptFields(p) ==
  [panel |-> p.panel, description |-> p.description, dialogue |-> p.dialogue,
   sfx |-> p.sfx]
Hydrating(run) == run.pc \in {"loop", "awaitImage"}
\* what parseScript made of the script response received last
LastParse == ParseScript(Trim(last.text[1]))
LastScriptParsed ==
  last.op = "scriptResolved" /\ last.text # Null /\ ~LastParse.threw

\* a run that has returned never comes back, and only a run that has not
\* returned sends a request
RunsOnlyEnd ==
  /\ RunIds(runs') \subseteq RunIds(runs) \cup {runCount + 1}
  /\ runCount' >= runCount
  /\ \A id \in RunIds(runs) : id <= runCount
  /\ last'.op = "issue" => last'.run \in RunIds(runs)

\* C1: when the image request for panel i rejects, the run returns without
\* sending another request, the collection is left as it was (the images set
\* for the panels before i stay), one error message is set and isLoading
\* becomes false.
C1_Step ==
  last'.op = "imageRejected" =>
    /\ mangaPanels' = mangaPanels
    /\ \E err \in Rejections : error' = Some(GenerationError(ErrorMessageOf(err)))
    /\ isLoading' = FALSE
    /\ last'.run \in RunIds(runs)
    /\ last'.run \notin RunIds(runs')
C1_RejectionAborts == [][C1_Step /\ RunsOnlyEnd]_vars

C1_Witness ==
  /\ last.op = "imageRejected"
  /\ last.idx >= 1
  /\ last.idx + 1 < Len(mangaPanels)
  /\ \E j \in 1..last.idx : ~mangaPanels[j].imageUrl.isNull
  /\ error # Null

\* C2: in a run at most one image request is outstanding, the requests go out
\* in the order 0, 1, 2, ..., and the request for the next index goes out
\* only when every earlier one has been answered and reconciled.
C2_Sequential ==
  /\ Cardinality({r \in DOMAIN runs : runs[r].pc = "awaitImage"}) <= 1
  /\ \A r \in DOMAIN runs :
       /\ runs[r].issued = IndicesUpTo(Len(runs[r].issued))
       /\ Len(runs[r].issued) <= Len(runs[r].scriptData)
       /\ runs[r].reconciled = IndicesUpTo(Len(runs[r].reconciled))
       /\ Len(runs[r].issued) - Len(runs[r].reconciled)
            = (IF runs[r].pc = "awaitImage" THEN 1 ELSE 0)

C2_Witness ==
  \E r \in DOMAIN runs : runs[r].pc = "awaitImage" /\ Len(runs[r].reconciled) >= 2

\* C3: when the parse gives N >= 4 panels the collection is set to N
\* entries in parse order, all with a null imageUrl, while no image request
\* of the run has been sent; and a request is only ever sent with the N
\* entries in place.
C3_Placeholders ==
  /\ (LastScriptParsed /\ Len(LastParse.panels) >= 4) =>
       /\ Len(mangaPanels) = Len(LastParse.panels)
       /\ \A j \in DOMAIN mangaPanels :
            /\ ScriptFields(mangaPanels[j]) = LastParse.panels[j]
            /\ mangaPanels[j].imageUrl = NullUrl
       /\ \E r \in DOMAIN runs :
            /\ runs[r].id = last.run
            /\ runs[r].issued = <<>>
            /\ runs[r].reconciled = <<>>
  /\ \A r \in DOMAIN runs :
       runs[r].issued # <<>> =>
         Len(runs[r].scriptData) >= 4 /\ Len(mangaPanels) = Len(runs[r].scriptData)

C3_Witness ==
  /\ LastScriptParsed
  /\ Len(LastParse.panels) >= 4
  /\ Len(mangaPanels) >= 4
  /\ LastParse.panels[1].panel < LastParse.panels[Len(LastParse.panels)].panel

\* C4: a resolved image request for panel i that reaches the update changes
\* nothing in the collection but imageUrl at index i.
C4_Step ==
  (last'.op = "imageResolved" /\ last'.run \in RunIds(runs')) =>
    /\ Len(mangaPanels') = Len(mangaPanels)
    /\ \A j \in DOMAIN mangaPanels :
         /\ ScriptFields(mangaPanels'[j]) = ScriptFields(mangaPanels[j])
         /\ j # last'.idx + 1 => mangaPanels'[j] = mangaPanels[j]
C4_OnlyIndexI == [][C4_Step]_vars

C4_Witness ==
  /\ last.op = "imageResolved"
  /\ last.idx >= 1
  /\ last.run \in RunIds(runs)
  /\ ~mangaPanels[last.idx + 1].imageUrl.isNull
  /\ mangaPanels[last.idx].imageUrl.isNull

\* no part of any candidate of the response carries inline data
NoInlinePart(resp) ==
  resp.candidates # Null =>
    \A c \in DOMAIN resp.candidates[1] :
      LET content == resp.candidates[1][c].content
      IN  (content # Null /\ content[1].parts # Null) =>
            \A k \in DOMAIN content[1].parts[1] : ~content[1].parts[1][k].inline

\* C5: when the image request for panel i resolves with no inline image
\* part, imageUrl at i stays null, no error is set and the run goes on to
\* the next index.
C5_Step ==
  (last'.op = "imageResolved" /\ NoInlinePart(last'.resp)) =>
    /\ mangaPanels' = mangaPanels
    /\ mangaPanels'[last'.idx + 1].imageUrl = NullUrl
    /\ error' = error
    /\ isLoading'
    /\ \E r \in DOMAIN runs' :
         /\ runs'[r].id = last'.run
         /\ runs'[r].pc = "loop"
         /\ runs'[r].i = last'.idx + 1
C5_AbsentImageTolerated == [][C5_Step]_vars

\* C6: when the parse gives fewer than 4 panels the run fails with the
\* generation error, the collection stays empty and the run has returned
\* without sending an image request.
C6_TooFewPanels ==
  (LastScriptParsed /\ Len(LastParse.panels) < 4) =>
    /\ error = Some(GenerationError(InsufficientMsg))
    /\ mangaPanels = <<>>
    /\ ~isLoading
    /\ last.run \notin RunIds(runs)

C6_Witness ==
  /\ LastScriptParsed
  /\ Len(LastParse.panels) = 3
  /\ error # Null
  /\ runCount = 2

\* C7: at most one run is active, isLoading tells whether one is, a run and
\* a reset start only while none is, and a hydrating run always finds the
\* collection it published.
C7_OneRun ==
  /\ Len(runs) <= 1
  /\ isLoading <=> runs # <<>>
  /\ ~crashed
  /\ \A r \in DOMAIN runs :
       Hydrating(runs[r]) =>
         /\ Len(mangaPanels) = Len(runs[r].scriptData)
         /\ \A j \in DOMAIN mangaPanels :
              ScriptFields(mangaPanels[j]) = runs[r].scriptData[j]
C7_StartStep ==
  last'.op \in {"start", "reset"} => (runs = <<>> /\ ~isLoading)
C7_SingleWriter == []C7_OneRun /\ [][C7_StartStep]_vars

C7_Witness ==
  /\ runCount = 2
  /\ \E r \in DOMAIN runs : runs[r].pc = "awaitImage" /\ runs[r].id = 2
  /\ isLoading

\* how many members of s are below v, and how many are not above it
CountBelow(s, v) == Cardinality({k \in DOMAIN s : s[k] < v})
CountUpTo(s, v) == Cardinality({k \in DOMAIN s : s[k] <= v})
\* the ordinals the blocks of a text declare, in block order
DeclaredOrdinals(text) ==
  LET blocks == PanelBlocks(text)
      all == [b \in DOMAIN blocks |-> PanelNum(blocks[b])]
  IN  SelectSeq(all, LAMBDA n : n > 0)

\* C8: once the placeholders are published, entry j of the collection
\* carries the j-th smallest ordinal of the parsed script, and no later step
\* of the run changes the number or the order of the entries.
C8_AtPublish ==
  (LastScriptParsed /\ Len(LastParse.panels) >= 4) =>
    LET ords == DeclaredOrdinals(Trim(last.text[1]))
    IN  /\ Len(mangaPanels) = Len(ords)
        /\ \A j \in DOMAIN mangaPanels :
             /\ CountBelow(ords, mangaPanels[j].panel) < j
             /\ j <= CountUpTo(ords, mangaPanels[j].panel)
C8_Step ==
  last'.op \in {"issue", "imageResolved", "imageRejected", "finish"} =>
    Ordinals(mangaPanels') = Ordinals(mangaPanels)
C8_OrderKept == []C8_AtPublish /\ [][C8_Step]_vars

C8_Witness ==
  /\ LastScriptParsed
  /\ Len(mangaPanels) >= 4
  /\ LET ords == DeclaredOrdinals(Trim(last.text[1]))
     IN  \E a, b \in DOMAIN ords : a < b /\ ords[a] > ords[b]

\* C9: starting a run and resetting leave the collection empty, and every
\* image in the collection was delivered to the run started last.
C9_Step == last'.op \in {"start", "reset"} => mangaPanels' = <<>>
C9_NoOldImage ==
  \A j \in DOMAIN mangaPanels :
    ~mangaPanels[j].imageUrl.isNull => mangaPanels[j].imageUrl.data[1] = runCount
C9_Discarded == []C9_NoOldImage /\ [][C9_Step]_vars

C9_Witness ==
  /\ runCount = 2
  /\ \E j \in DOMAIN mangaPanels : ~mangaPanels[j].imageUrl.isNull
  /\ mangaPanels[1].imageUrl.data = <<2, 0, 0>>

\* the place of block b's record in a stable ascending sort
Rank(ords, b) ==
  CountBelow(ords, ords[b]) + Cardinality({c \in 1..b : ords[c] = ords[b]})

\* C10: when each of the K blocks of a text declares an ordinal > 0,
\* parseScript returns K records, ascending by panel, records of equal
\* panel in block order.
C10_SortedStable ==
  LET blocks == PanelBlocks(scriptText)
      ords == [b \in DOMAIN blocks |-> PanelNum(blocks[b])]
  IN  (last.op = "parseScript" /\ Len(blocks) >= 1
         /\ \A b \in DOMAIN blocks : ords[b] > 0) =>
        /\ ~parsed.threw
        /\ Len(parsed.panels) = Len(blocks)
        /\ \A j \in 1..(Len(parsed.panels) - 1) :
             parsed.panels[j].panel <= parsed.panels[j + 1].panel
        /\ \A b \in DOMAIN blocks :
             parsed.panels[Rank(ords, b)] = PanelRecord(blocks[b])

C10_Witness ==
  LET blocks == PanelBlocks(scriptText)
      ords == [b \in DOMAIN blocks |-> PanelNum(blocks[b])]
  IN  /\ last.op = "parseScript"
      /\ Len(blocks) >= 3
      /\ \A b \in DOMAIN blocks : ords[b] > 0
      /\ \E a, b \in DOMAIN blocks :
           a < b /\ ords[a] = ords[b] /\ PanelRecord(blocks[a]) # PanelRecord(blocks[b])
      /\ \E a, b \in DOMAIN blocks : a < b /\ ords[a] > ords[b]
      /\ Len(parsed.panels) = Len(blocks)

\* the blocks of a text that declare an ordinal > 0, and their text put
\* together again
GoodBlocks(text) == SelectSeq(PanelBlocks(text), LAMBDA b : PanelNum(b) > 0)
RECURSIVE Concat(_)
Concat(ss) == IF ss = <<>> THEN <<>> ELSE Head(ss) \o Concat(Tail(ss))

\* C11: parseScript throws exactly when no block declares an ordinal > 0;
\* otherwise it returns one record per such block, the same records it
\* returns for the text with the other blocks taken out.
C11_ThrowsIffNoOrdinal ==
  last.op = "parseScript" =>
    LET good == GoodBlocks(scriptText)
        ords == [b \in DOMAIN good |-> PanelNum(good[b])]
    IN  /\ parsed.threw <=> good = <<>>
        /\ ~parsed.threw =>
             /\ Len(parsed.panels) = Len(good)
             /\ \A b \in DOMAIN good :
                  parsed.panels[Rank(ords, b)] = PanelRecord(good[b])
             /\ parsed = ParseScript(Concat(good))

C11_Witness ==
  /\ last.op = "parseScript"
  /\ ~parsed.threw
  /\ Len(GoodBlocks(scriptText)) >= 2
  /\ Len(PanelBlocks(scriptText)) > Len(GoodBlocks(scriptText))
  /\ PanelNum(PanelBlocks(scriptText)[2]) = 0

HasLabel(block, label) == \E j \in DOMAIN block : block[j].k = label

\* C12: every record parseScript returns has a non-empty description: the
\* placeholder when its block has no "Description:" label, and otherwise
\* the non-empty text after the label.
C12_DescriptionNonEmpty ==
  (last.op = "parseScript" /\ ~parsed.threw) =>
    LET good == GoodBlocks(scriptText)
        ords == [b \in DOMAIN good |-> PanelNum(good[b])]
    IN  /\ \A j \in DOMAIN parsed.panels : parsed.panels[j].description # <<>>
        /\ \A b \in DOMAIN good :
             ~HasLabel(good[b], "Description:") =>
               parsed.panels[Rank(ords, b)].description = NoDescription

\* the steps on which a call of handleGenerateManga returns
RunFailed ==
  \/ last.op \in {"scriptRejected", "imageRejected"}
  \/ last.op = "scriptResolved" /\ last.run \notin RunIds(runs)
  \/ last.op = "imageResolved" /\ last.run \notin RunIds(runs)
RunCompleted == last.op = "finish"

\* C13: when a run returns, by completing all panels or by any failure,
\* isLoading is false, and an error message is set if and only if the run
\* failed.
C13_ErrorIffFailed ==
  (RunFailed \/ RunCompleted) =>
    /\ ~isLoading
    /\ error # Null <=> RunFailed

\* every request is answered and every continuation runs
RunProgress ==
  \E r \in DOMAIN runs :
    \/ \E err \in Rejections : ScriptRejected(r, err) \/ ImageRejected(r, err)
    \/ \E resp \in ScriptResponses : ScriptResolved(r, resp)
    \/ \E resp \in ImageResponses(runs[r].id, runs[r].i) : ImageResolved(r, resp)
    \/ IssueImageRequest(r)
    \/ FinishRun(r)
SpecFair == Spec /\ WF_vars(RunProgress)

\* C13, the part that holds: a run that is loading stops loading, and on
\* the step it returns error is set by a failure and left alone otherwise.
C13_StopsLoading == isLoading ~> ~isLoading
C13_ReturnStep ==
  /\ (RunFailed' /\ last' # last) =>
       (~isLoading' /\ error' # Null /\ error' # Some(PdfErrorMsg))
  /\ (RunCompleted' /\ last' # last) => (~isLoading' /\ error' = error)
C13_ReturnSetsError == [][C13_ReturnStep]_vars
====
